---- MODULE Spec2Model ----
(***************************************************************************)
(* A model of pykoda's decode / normalize / cache path                     *)
(* (src/pykoda/src/pykoda/data/getdata.py): unpack_jsons, normalize_keys,  *)
(* sanitise_array, bz2_to_tar and get_data with its merge_files task.      *)
(*                                                                         *)
(* A pandas DataFrame is a record [cols, rows, idx]: cols is the sequence   *)
(* of column labels (a sequence, because rename can produce equal labels), *)
(* rows the sequence of rows, each a sequence of cells aligned with cols,  *)
(* and idx the row labels (the index), aligned with rows.                  *)
(* A cell is NaN (absent), a scalar, or a list of records; a record is an  *)
(* ordered sequence of named fields, as a Python dict is.                  *)
(***************************************************************************)
EXTENDS Integers, Sequences, FiniteSets, TLC

VARIABLES
    udf,      \* unpack_jsons: the table passed in
    ures,     \* unpack_jsons: the table returned
    uwarn,    \* unpack_jsons: the columns a RuntimeWarning was issued for
    ust,      \* unpack_jsons: "called", "returned" or "raised"
    uerr,     \* unpack_jsons: the exception that left it, or "none"
    sdf,      \* sanitise_array: the table passed in
    snorm,    \* sanitise_array: the table as normalize_keys leaves it
    sres,     \* sanitise_array: the table as sanitise_array leaves it
    sst,      \* sanitise_array: "called", "returned" or "raised"
    pc,            \* get_data: the step the build is at
    bz2File,       \* the downloaded file at out_path
    artifact,      \* the decompressed intermediate: "absent", "file" or "dir"
    tarFile,       \* the repackaged .tar next to the download
    ret,           \* bz2_to_tar: the value its try block is about to return
    pending,       \* bz2_to_tar: the exception in flight through finally
    tar_file_name, \* get_data: what bz2_to_tar returned
    gzfiles,       \* merge_files: the archive members chosen for decoding
    parsed,        \* merge_files: per chosen member "pending", "ok" or "failed"
    merged_df,     \* merge_files: the table being built
    cacheFile,     \* the cache-unit file at output_file
    outcome,       \* get_data: "running", "done" or the error that ended it
    errorMsgLen,   \* the bytes of the file the API error carries
    invoked7z,     \* the decompression utility was run
    removed,       \* bz2_to_tar printed "Removed temporary ..."
    stage,         \* merge_files: the transforms completed so far
    cacheKey,      \* several builds: the (company, feed, date, hour) of each call
    API_VERSION,   \* several builds: config.API_VERSION
    disk,          \* several builds: the files of the cache directory
    step,          \* several builds: the step each call of get_data is at
    tarName        \* several builds: each call's tar_file_name

unpackVars == <<udf, ures, uwarn, ust, uerr>>
sanitiseVars == <<sdf, snorm, sres, sst>>
buildVars == <<pc, bz2File, artifact, tarFile, ret, pending, tar_file_name, gzfiles,
               parsed, merged_df, cacheFile, outcome, errorMsgLen, invoked7z,
               removed, stage>>
keyedVars == <<cacheKey, API_VERSION, disk, step, tarName>>
vars == <<unpackVars, sanitiseVars, buildVars, keyedVars>>

(***************************************************************************)
(* Bounds of the model.                                                    *)
(***************************************************************************)
MaxRows == 2      \* rows of a table passed to unpack_jsons
MaxList == 2      \* elements of a list-of-records cell
MaxSanRows == 2   \* rows of a table passed to sanitise_array
MaxFiles == 3     \* members of a downloaded archive
MaxErrOffset == 6 \* largest offset of b'error' in an API error document

(***************************************************************************)
(* Cells, records and frames.                                              *)
(***************************************************************************)
NaN == [k |-> "nan", v |-> 0, l |-> <<>>]
Val(n) == [k |-> "val", v |-> n, l |-> <<>>]
Lst(s) == [k |-> "list", v |-> 0, l |-> s]
Fld(n, c) == [name |-> n, cell |-> c]

\* a RangeIndex: the labels 0 .. n-1
RangeIndex(n) == [i \in 1..n |-> i - 1]

EmptyFrame == [cols |-> <<>>, rows |-> <<>>, idx |-> <<>>]

\* df.reset_index(drop=True)
ResetIndexDrop(df) == [df EXCEPT !.idx = RangeIndex(Len(df.rows))]

Range(s) == {s[i] : i \in DOMAIN s}

Pos(s, x) == CHOOSE i \in DOMAIN s : s[i] = x /\ \A j \in DOMAIN s : s[j] = x => i <= j

Column(df, k) == [i \in DOMAIN df.rows |-> df.rows[i][Pos(df.cols, k)]]

RECURSIVE Flatten(_)
Flatten(ss) ==
    IF ss = <<>> THEN <<>>
    ELSE Flatten(SubSeq(ss, 1, Len(ss) - 1)) \o ss[Len(ss)]

\* the labels of several frames in order of first appearance (pandas' unsorted union)
RECURSIVE UnionCols(_)
UnionCols(cs) ==
    IF cs = <<>> THEN <<>>
    ELSE LET rest == UnionCols(SubSeq(cs, 1, Len(cs) - 1))
         IN  rest \o SelectSeq(cs[Len(cs)], LAMBDA c : c \notin Range(rest))

Repeat(x, n) == [i \in 1..n |-> x]

Max(S) == CHOOSE m \in S : \A n \in S : n <= m

(***************************************************************************)
(* pandas.json_normalize on a list of records: one row per record, one     *)
(* column per field name, NaN where a record lacks the field.  An empty    *)
(* list gives the frame without rows and columns; a value that is no list  *)
(* (the NaN of an absent field) raises NotImplementedError.  The frame     *)
(* carries a RangeIndex, as the tables _parse_gtfs passes to unpack_jsons  *)
(* do, so that a row's label and its position name the same row.           *)
(***************************************************************************)
ElemNames(e) == [i \in DOMAIN e |-> e[i].name]

ElemGet(e, n) ==
    IF \E i \in DOMAIN e : e[i].name = n
    THEN e[Pos(ElemNames(e), n)].cell
    ELSE NaN

CanNormalize(cell) == cell.k = "list"

JsonNormalize(cell) ==
    LET cols == UnionCols([i \in DOMAIN cell.l |-> ElemNames(cell.l[i])])
    IN  [cols |-> cols,
         rows |-> [i \in DOMAIN cell.l |->
                      [j \in DOMAIN cols |-> ElemGet(cell.l[i], cols[j])]],
         idx  |-> RangeIndex(Len(cell.l))]

\* the rows of df laid out under the labels cols, NaN for a label df lacks
Realign(df, cols) ==
    [i \in DOMAIN df.rows |->
        [j \in DOMAIN cols |->
            IF cols[j] \in Range(df.cols)
            THEN df.rows[i][Pos(df.cols, cols[j])]
            ELSE NaN]]

\* pd.concat(frames, axis='index')
ConcatIndex(frames) ==
    LET cols == UnionCols([i \in DOMAIN frames |-> frames[i].cols])
    IN  [cols |-> cols,
         rows |-> Flatten([i \in DOMAIN frames |-> Realign(frames[i], cols)]),
         idx  |-> Flatten([i \in DOMAIN frames |-> frames[i].idx])]

\* pd.concat(frames, axis='columns') of frames that all carry a RangeIndex:
\* rows are matched by position and the shorter frames are padded with NaN
ConcatColumns(frames) ==
    LET n == Max({0} \cup {Len(frames[f].rows) : f \in DOMAIN frames})
    IN  [cols |-> Flatten([f \in DOMAIN frames |-> frames[f].cols]),
         rows |-> [i \in 1..n |->
                      Flatten([f \in DOMAIN frames |->
                          IF i <= Len(frames[f].rows)
                          THEN frames[f].rows[i]
                          ELSE Repeat(NaN, Len(frames[f].cols))])],
         idx  |-> RangeIndex(n)]

\* df.drop(keys, axis='columns')
DropColumns(df, keys) ==
    LET keep == SelectSeq([j \in DOMAIN df.cols |-> j],
                          LAMBDA j : df.cols[j] \notin keys)
    IN  [cols |-> [n \in DOMAIN keep |-> df.cols[keep[n]]],
         rows |-> [i \in DOMAIN df.rows |->
                      [n \in DOMAIN keep |-> df.rows[i][keep[n]]]],
         idx  |-> df.idx]

(***************************************************************************)
(* _is_json and unpack_jsons.                                              *)
(***************************************************************************)
\* df[k].dtype == np.dtype('O'): numbers and NaN alone give a numeric column
IsObject(series) == \E i \in DOMAIN series : series[i].k = "list"

\* series[0][0] looks at the first row only; subscripting a NaN or a number is
\* the TypeError that is caught, subscripting an empty list is an IndexError
\* that is not
_is_json(series) ==
    IF Len(series) = 0 THEN "KeyError"
    ELSE IF series[1].k # "list" THEN "false"
    ELSE IF series[1].l = <<>> THEN "IndexError"
    ELSE "true"

JsonRaises(df) ==
    \E j \in DOMAIN df.cols :
        /\ IsObject(Column(df, df.cols[j]))
        /\ _is_json(Column(df, df.cols[j])) \notin {"true", "false"}

JsonColumns(df) ==
    SelectSeq(df.cols, LAMBDA k : /\ IsObject(Column(df, k))
                                  /\ _is_json(Column(df, k)) = "true")

keys_to_sanitise(df) == JsonColumns(df)

\* lines 41-47: one frame per row and key, and the row's label once per
\* record of each of them
Indexes(df, keys) ==
    Flatten([ix \in DOMAIN df.rows |->
        Flatten([n \in DOMAIN keys |->
            Repeat(ix, Len(JsonNormalize(Column(df, keys[n])[ix]).rows))])])

\* lines 52-56: the frames of one key stacked and renamed key_field
UnpackedSeries(df, k) ==
    LET this_df == ResetIndexDrop(ConcatIndex([ix \in DOMAIN df.rows |->
                                                  JsonNormalize(Column(df, k)[ix])]))
    IN  [this_df EXCEPT
            !.cols = [j \in DOMAIN this_df.cols |-> k \o "_" \o this_df.cols[j]]]

\* Explode without line 49: the exploded columns are left in the table
ExplodeKeepingKeys(df, keys) ==
    LET indexes  == Indexes(df, keys)
        repeated == [cols |-> df.cols,
                     rows |-> [n \in DOMAIN indexes |-> df.rows[indexes[n]]],
                     idx  |-> RangeIndex(Len(indexes))]
    IN  ConcatColumns(<<repeated>> \o [n \in DOMAIN keys |-> UnpackedSeries(df, keys[n])])

\* lines 49-59
Explode(df, keys) ==
    LET indexes  == Indexes(df, keys)
        dropped  == DropColumns(df, Range(keys))
        repeated == [cols |-> dropped.cols,
                     rows |-> [n \in DOMAIN indexes |-> dropped.rows[indexes[n]]],
                     idx  |-> RangeIndex(Len(indexes))]
    IN  ConcatColumns(<<repeated>> \o [n \in DOMAIN keys |-> UnpackedSeries(df, keys[n])])

ExplodeRaises(df, keys) ==
    \E ix \in DOMAIN df.rows, n \in DOMAIN keys :
        ~CanNormalize(Column(df, keys[n])[ix])

\* lines 61-63: the columns of the result a warning is issued for
WarnColumns(df) == Range(JsonColumns(df))

\* the whole of unpack_jsons: [err, df, warned]
unpack_jsons(df) ==
    IF JsonRaises(df)
    THEN [err |-> "IndexError", df |-> df, warned |-> {}]
    ELSE LET keys == keys_to_sanitise(df)
         IN  IF keys # <<>> /\ ExplodeRaises(df, keys)
             THEN [err |-> "NotImplementedError", df |-> df, warned |-> {}]
             ELSE LET out == IF keys # <<>> THEN Explode(df, keys) ELSE df
                  IN  IF JsonRaises(out)
                      THEN [err |-> "IndexError", df |-> out, warned |-> {}]
                      ELSE [err |-> "none", df |-> out, warned |-> WarnColumns(out)]

(***************************************************************************)
(* normalize_keys and sanitise_array.                                      *)
(***************************************************************************)
\* lines 88-113
renames ==
    [tripUpdate_trip_tripId |-> "trip_id",
     tripUpdate_trip_startDate |-> "start_date",
     tripUpdate_trip_directionId |-> "direction_id",
     tripUpdate_trip_routeId |-> "route_id",
     tripUpdate_trip_scheduleRelationship |-> "schedule_relationship",
     tripUpdate_trip_startTime |-> "start_time",
     tripUpdate_timestamp |-> "timestamp",
     tripUpdate_vehicle_id |-> "vehicle_id",
     stopSequence |-> "stop_sequence",
     stopId |-> "stop_id",
     scheduleRelationship |-> "schedule_relationship2",
     vehicle_trip_tripId |-> "trip_id",
     vehicle_trip_scheduleRelationship |-> "schedule_relationship",
     vehicle_timestamp |-> "timestamp",
     vehicle_vehicle_id |-> "vehicle_id",
     vehicle_trip_startTime |-> "start_time",
     vehicle_trip_startDate |-> "start_date",
     vehicle_trip_routeId |-> "route_id",
     vehicle_trip_directionId |-> "direction_id",
     tripUpdate_stopTimeUpdate_stopSequence |-> "stop_sequence",
     tripUpdate_stopTimeUpdate_stopId |-> "stop_id",
     tripUpdate_stopTimeUpdate_arrival_delay |-> "arrival_delay",
     tripUpdate_stopTimeUpdate_arrival_time |-> "arrival_time",
     tripUpdate_stopTimeUpdate_departure_delay |-> "departure_delay",
     tripUpdate_stopTimeUpdate_departure_time |-> "departure_time",
     tripUpdate_stopTimeUpdate_arrival_uncertainty |-> "arrival_uncertainty",
     tripUpdate_stopTimeUpdate_departure_uncertainty |-> "departure_uncertainty",
     alert_activePeriod_start |-> "period_start",
     alert_activePeriod_end |-> "period_end",
     alert_informedEntity_routeId |-> "route_id",
     alert_informedEntity_stopId |-> "stop_id",
     alert_informedEntity_trip_tripId |-> "trip_id",
     alert_informedEntity_trip_scheduleRelationship |-> "schedule_relationship",
     alert_headerText_translation_text |-> "header_text",
     alert_descriptionText_translation_text |-> "description_text"]

\* df.rename(columns=renames): every label the table knows is replaced, the
\* others are kept, and nothing looks at whether two labels become equal
normalize_keys(df) ==
    [df EXCEPT !.cols = [j \in DOMAIN df.cols |->
        IF df.cols[j] \in DOMAIN renames THEN renames[df.cols[j]] ELSE df.cols[j]]]

\* df.dropna(axis=0, how='all')
DropNaRows(df) ==
    LET keep == SelectSeq([i \in DOMAIN df.rows |-> i],
                          LAMBDA i : \E j \in DOMAIN df.cols : df.rows[i][j] # NaN)
    IN  [cols |-> df.cols,
         rows |-> [n \in DOMAIN keep |-> df.rows[keep[n]]],
         idx  |-> [n \in DOMAIN keep |-> df.idx[keep[n]]]]

\* df.dropna(axis=1, how='all')
DropNaColumns(df) ==
    LET keep == SelectSeq([j \in DOMAIN df.cols |-> j],
                          LAMBDA j : \E i \in DOMAIN df.rows : df.rows[i][j] # NaN)
    IN  [cols |-> [n \in DOMAIN keep |-> df.cols[keep[n]]],
         rows |-> [i \in DOMAIN df.rows |->
                      [n \in DOMAIN keep |-> df.rows[i][keep[n]]]],
         idx  |-> df.idx]

\* lines 130-139, in the order of the remove calls
VolatileKeys ==
    <<"timestamp", "index", "arrival_delay", "arrival_time", "departure_delay",
      "departure_time", "arrival_uncertainty", "departure_uncertainty">>

\* list.remove(x): the first occurrence goes
RemoveFirst(keys, x) ==
    LET p == Pos(keys, x)
    IN  SubSeq(keys, 1, p - 1) \o SubSeq(keys, p + 1, Len(keys))

\* lines 129-139: the remove calls run inside one suppress(ValueError) block,
\* so the first label that is missing ends the block and the later ones stay
RECURSIVE RemoveVolatile(_, _)
RemoveVolatile(keys, n) ==
    IF n > Len(VolatileKeys) THEN keys
    ELSE IF VolatileKeys[n] \notin Range(keys) THEN keys
    ELSE RemoveVolatile(RemoveFirst(keys, VolatileKeys[n]), n + 1)

\* the cells of a row under the labels named in keys
KeyOf(df, row, keys) ==
    [j \in {p \in DOMAIN df.cols : df.cols[p] \in keys} |-> row[j]]

\* df.drop_duplicates(subset=keys, keep='last')
DropDuplicates(df, keys) ==
    LET keep == SelectSeq([i \in DOMAIN df.rows |-> i],
                    LAMBDA i : \A i2 \in DOMAIN df.rows :
                        i2 > i => KeyOf(df, df.rows[i2], keys) # KeyOf(df, df.rows[i], keys))
    IN  [cols |-> df.cols,
         rows |-> [n \in DOMAIN keep |-> df.rows[keep[n]]],
         idx  |-> [n \in DOMAIN keep |-> df.idx[keep[n]]]]

\* lines 120-141, on the table normalize_keys left
Deduplicate(df) ==
    LET cleaned == DropColumns(DropNaColumns(DropNaRows(df)), {"level_0"})
        keys    == RemoveVolatile(cleaned.cols, 1)
    IN  DropDuplicates(cleaned, Range(keys))

sanitise_array(df) == Deduplicate(normalize_keys(df))

(***************************************************************************)
(* Tables passed to unpack_jsons: a scalar column id, a column f and       *)
(* optionally a second column g.  A row's f is absent (NaN), or a list of  *)
(* up to MaxList records {x}, or of records {x, y} whose y is itself a     *)
(* list of records {z}; a row's g is absent or a list of records {u}.      *)
(* Every scalar is tagged with the row (and element) it belongs to.        *)
(***************************************************************************)
FShapes ==
    {[kind |-> "nan", n |-> 0]}
        \cup [kind : {"plain"}, n : 0..MaxList]
        \cup [kind : {"nested"}, n : 1..MaxList]

GShapes == [kind : {"nan"}, n : {0}] \cup [kind : {"plain"}, n : 0..MaxList]

FCell(i, s) ==
    CASE s.kind = "nan" -> NaN
      [] s.kind = "plain" ->
            Lst([j \in 1..s.n |-> <<Fld("x", Val(10 * i + j))>>])
      [] s.kind = "nested" ->
            Lst([j \in 1..s.n |->
                    <<Fld("x", Val(10 * i + j)),
                      Fld("y", Lst(<<<<Fld("z", Val(100 * i + 10 * j))>>>>))>>])

GCell(i, s) ==
    IF s.kind = "nan" THEN NaN
    ELSE Lst([j \in 1..s.n |-> <<Fld("u", Val(10 * i + j))>>])

TableIdF(fs) ==
    [cols |-> <<"id", "f">>,
     rows |-> [i \in DOMAIN fs |-> <<Val(i), FCell(i, fs[i])>>],
     idx  |-> RangeIndex(Len(fs))]

TableIdFG(fg) ==
    [cols |-> <<"id", "f", "g">>,
     rows |-> [i \in DOMAIN fg |-> <<Val(i), FCell(i, fg[i][1]), GCell(i, fg[i][2])>>],
     idx  |-> RangeIndex(Len(fg))]

(***************************************************************************)
(* unpack_jsons applied to every such table.                               *)
(***************************************************************************)
IdleUnpack ==
    /\ udf = EmptyFrame
    /\ ures = EmptyFrame
    /\ uwarn = {}
    /\ ust = "idle"
    /\ uerr = "none"

IdleSanitise ==
    /\ sdf = EmptyFrame
    /\ snorm = EmptyFrame
    /\ sres = EmptyFrame
    /\ sst = "idle"

NoFile == [kind |-> "absent", errAt |-> 0 - 1, len |-> 0, files |-> <<>>]

IdleBuild ==
    /\ pc = "idle"
    /\ bz2File = NoFile
    /\ artifact = "absent"
    /\ tarFile = [exists |-> FALSE, files |-> <<>>]
    /\ ret = "unset"
    /\ pending = "none"
    /\ tar_file_name = "unset"
    /\ gzfiles = <<>>
    /\ parsed = <<>>
    /\ merged_df = EmptyFrame
    /\ cacheFile = [written |-> FALSE, df |-> EmptyFrame]
    /\ outcome = "running"
    /\ errorMsgLen = 0
    /\ invoked7z = FALSE
    /\ removed = FALSE
    /\ stage = {}

\* no call of get_data is under way beside the one that is followed
IdleKeyed ==
    /\ cacheKey = <<>>
    /\ API_VERSION = 0
    /\ disk = {}
    /\ step = <<>>
    /\ tarName = <<>>

InitUnpack ==
    /\ IdleSanitise
    /\ IdleBuild
    /\ IdleKeyed
    /\ \E r \in 1..MaxRows :
          \/ \E fs \in [1..r -> FShapes] : udf = TableIdF(fs)
          \/ \E fg \in [1..r -> FShapes \X GShapes] : udf = TableIdFG(fg)
    /\ ures = EmptyFrame
    /\ uwarn = {}
    /\ ust = "called"
    /\ uerr = "none"

UnpackJsons ==
    /\ ust = "called"
    /\ LET r == unpack_jsons(udf)
       IN  /\ ust' = IF r.err = "none" THEN "returned" ELSE "raised"
           /\ uerr' = r.err
           /\ ures' = IF r.err = "none" THEN r.df ELSE EmptyFrame
           /\ uwarn' = r.warned
    /\ UNCHANGED <<udf, sanitiseVars, buildVars, keyedVars>>

NextUnpack == UnpackJsons

SpecUnpack == InitUnpack /\ [][NextUnpack]_vars

(***************************************************************************)
(* Tables passed to sanitise_array, under the field paths the decoder      *)
(* gives them: the trip id, any subset of the volatile columns, and        *)
(* optionally one more column (a vehicle-position or an alert trip id, an  *)
(* all-NaN column, a leftover level_0) or an all-NaN row.  Row i holds i   *)
(* in the volatile column named by differs and 0 in the other volatile     *)
(* columns.                                                                *)
(***************************************************************************)
VolatileSource ==
    [timestamp |-> "tripUpdate_timestamp",
     index |-> "index",
     arrival_delay |-> "tripUpdate_stopTimeUpdate_arrival_delay",
     arrival_time |-> "tripUpdate_stopTimeUpdate_arrival_time",
     departure_delay |-> "tripUpdate_stopTimeUpdate_departure_delay",
     departure_time |-> "tripUpdate_stopTimeUpdate_departure_time",
     arrival_uncertainty |-> "tripUpdate_stopTimeUpdate_arrival_uncertainty",
     departure_uncertainty |-> "tripUpdate_stopTimeUpdate_departure_uncertainty"]

Extras == {"none", "vehicle", "alert", "nancol", "level_0", "nanrow"}

ExtraCols(extra) ==
    CASE extra = "vehicle" -> <<"vehicle_trip_tripId">>
      [] extra = "alert"   -> <<"alert_informedEntity_trip_tripId">>
      [] extra = "nancol"  -> <<"vehicle_position_bearing">>
      [] extra = "level_0" -> <<"level_0">>
      [] OTHER             -> <<>>

ExtraCells(extra, i) ==
    CASE extra = "vehicle" -> <<NaN>>
      [] extra = "alert"   -> <<Val(i)>>
      [] extra = "nancol"  -> <<NaN>>
      [] extra = "level_0" -> <<Val(i)>>
      [] OTHER             -> <<>>

SanitiseInput(present, differs, trip, extra) ==
    LET vol  == SelectSeq(VolatileKeys, LAMBDA c : c \in present)
        cols == <<"tripUpdate_trip_tripId">>
                    \o [n \in DOMAIN vol |-> VolatileSource[vol[n]]]
                    \o ExtraCols(extra)
        rows == [i \in DOMAIN trip |->
                    <<Val(trip[i])>>
                        \o [n \in DOMAIN vol |-> IF vol[n] = differs THEN Val(i) ELSE Val(0)]
                        \o ExtraCells(extra, i)]
        all  == IF extra = "nanrow" THEN <<Repeat(NaN, Len(cols))>> \o rows ELSE rows
    IN  [cols |-> cols, rows |-> all, idx |-> RangeIndex(Len(all))]

InitSanitise ==
    /\ IdleUnpack
    /\ IdleBuild
    /\ IdleKeyed
    /\ \E present \in SUBSET Range(VolatileKeys) :
         \E differs \in present \cup {"none"} :
           \E r \in 1..MaxSanRows :
             \E trip \in [1..r -> 1..2] :
               \E extra \in Extras :
                  sdf = SanitiseInput(present, differs, trip, extra)
    /\ snorm = EmptyFrame
    /\ sres = EmptyFrame
    /\ sst = "called"

\* sanitise_array never raises on these tables: rename, dropna, drop and
\* drop_duplicates all accept them
SanitiseArray ==
    /\ sst = "called"
    /\ snorm' = normalize_keys(sdf)
    /\ sres' = sanitise_array(sdf)
    /\ sst' = "returned"
    /\ UNCHANGED <<sdf, unpackVars, buildVars, keyedVars>>

NextSanitise == SanitiseArray

SpecSanitise == InitSanitise /\ [][NextSanitise]_vars

(***************************************************************************)
(* get_data: the downloaded file.  The file is an API error document, with *)
(* b'error' at some offset, or a bz2 archive (whose first ten bytes are    *)
(* the bz2 magic and hold no b'error').  An archive member is a name, read *)
(* as a sequence of name parts, and a content.                             *)
(***************************************************************************)
HeadBytes == 10      \* f.read(10)
MoreBytes == 70      \* f.read(70)
ErrorWordLen == 5    \* len(b'error')

Min(a, b) == IF a <= b THEN a ELSE b

\* b'error' in start: the word lies within the bytes that were read
ErrorInHead(file, nbytes) ==
    file.errAt >= 0 /\ file.errAt + ErrorWordLen <= Min(nbytes, file.len)

\* the check of lines 217-222, reading five bytes too few
ErrorCheckShortRead(file) == ErrorInHead(file, HeadBytes - ErrorWordLen)

\* lines 217-222
ErrorCheck(file) == ErrorInHead(file, HeadBytes)

\* name.endswith(".pb")
EndsWithPb(name) == name # <<>> /\ name[Len(name)] = ".pb"

\* 'Duplicate' in name
HasDuplicate(name) == "Duplicate" \in Range(name)

\* line 240 without the 'Duplicate' test
SelectAllPb(files) == SelectSeq(files, LAMBDA e : EndsWithPb(e.name))

\* line 240
SelectFiles(files) ==
    SelectSeq(files, LAMBDA e : EndsWithPb(e.name) /\ ~HasDuplicate(e.name))

(***************************************************************************)
(* _parse_gtfs.  A message content is malformed, or a feed with no entity, *)
(* or a feed with one trip update holding two stop-time updates.  A record *)
(* nested in a record is written by the fields json_normalize flattens it  *)
(* to (arrival.delay).                                                     *)
(***************************************************************************)
StopTimeUpdate(stop, delay) ==
    <<Fld("stopId", Val(stop)), Fld("arrival.delay", Val(delay))>>

TripUpdateFrame(ts, delay, withTimestamp) ==
    LET stu == Lst(<<StopTimeUpdate(1, delay), StopTimeUpdate(2, 6)>>)
    IN  IF withTimestamp
        THEN [cols |-> <<"id", "tripUpdate_trip_tripId", "tripUpdate_timestamp",
                         "tripUpdate_stopTimeUpdate">>,
              rows |-> <<<<Val(1), Val(7), Val(ts), stu>>>>,
              idx  |-> RangeIndex(1)]
        ELSE [cols |-> <<"id", "tripUpdate_trip_tripId", "tripUpdate_stopTimeUpdate">>,
              rows |-> <<<<Val(1), Val(7), stu>>>>,
              idx  |-> RangeIndex(1)]

\* pd.json_normalize(msg_dict.get('entity', dict()), sep='_')
MessageFrame(content) ==
    CASE content = "tu_a"    -> TripUpdateFrame(1000, 5, TRUE)
      [] content = "tu_b"    -> TripUpdateFrame(1001, 8, TRUE)
      [] content = "tu_nots" -> TripUpdateFrame(0, 5, FALSE)
      [] OTHER               -> [cols |-> <<>>, rows |-> <<<<>>>>, idx |-> RangeIndex(1)]

\* msg.ParseFromString raises DecodeError on bytes that are no feed message
ParseFails(content) == content \in {"malformed", "text"}

_parse_gtfs(content) ==
    IF ParseFails(content)
    THEN [err |-> "DecodeError", df |-> EmptyFrame]
    ELSE LET u == unpack_jsons(MessageFrame(content))
         IN  [err |-> u.err, df |-> ResetIndexDrop(u.df)]

(***************************************************************************)
(* merge_files, after the decodes.                                         *)
(***************************************************************************)
\* 'timestamp' in k, over the labels of the model
TimestampLabels == {"tripUpdate_timestamp", "vehicle_timestamp", "timestamp"}

\* lines 251-256
Castings(df) ==
    {j \in DOMAIN df.cols : df.cols[j] \in TimestampLabels \/ df.cols[j] = "id"}

\* astype(np.int64) raises on a NaN and on a list
CastFails(df) ==
    \E i \in DOMAIN df.rows : \E j \in Castings(df) : df.rows[i][j].k # "val"

\* k.replace('.', '_'), over the labels of the model
Undot(k) ==
    CASE k = "tripUpdate_stopTimeUpdate_arrival.delay" -> "tripUpdate_stopTimeUpdate_arrival_delay"
      [] OTHER -> k

\* lines 262-263
RenameDots(df) == [df EXCEPT !.cols = [j \in DOMAIN df.cols |-> Undot(df.cols[j])]]

\* lines 268-269 skipped: the table is persisted as it is
WithoutPlaceholder(df) == df

\* lines 268-269: DataFrame.empty is true of a table without columns and
\* of a table without rows
WithPlaceholder(df) ==
    IF df.cols = <<>> \/ df.rows = <<>>
    THEN [df EXCEPT !.cols = df.cols \o <<"_">>,
                    !.rows = [i \in DOMAIN df.rows |-> df.rows[i] \o <<Val(0)>>]]
    ELSE df

\* line 272: the row labels become the column index
ResetIndex(df) ==
    [cols |-> <<"index">> \o df.cols,
     rows |-> [i \in DOMAIN df.rows |-> <<Val(df.idx[i])>> \o df.rows[i]],
     idx  |-> RangeIndex(Len(df.rows))]

\* a decode that failed is dropped instead of raised
DecodeFailureIgnored(statuses) == FALSE

\* lines 245-246: Parallel(...) raises the exception of a decode that failed
DecodeFailed(statuses) == \E n \in DOMAIN statuses : statuses[n] = "failed"

(***************************************************************************)
(* The responses a download can bring.                                     *)
(***************************************************************************)
MemberNames ==
    <<<<"a", ".pb">>, <<"a", "Duplicate", ".pb">>, <<"b", ".pb">>,
      <<"Duplicate", "b", ".pb">>, <<"b", ".pb", ".txt">>>>

MessageContents == {"tu_a", "tu_b", "tu_nots", "empty", "malformed"}

ContentsOf(name) == IF EndsWithPb(name) THEN MessageContents ELSE {"text"}

ArchiveOf(chosen, content) ==
    LET which == SelectSeq([n \in DOMAIN MemberNames |-> n], LAMBDA n : n \in chosen)
    IN  [kind |-> "archive", errAt |-> 0 - 1, len |-> 1000,
         files |-> [k \in DOMAIN which |->
                      [name |-> MemberNames[which[k]], content |-> content[which[k]]]]]

ErrorDocument(offset, length) ==
    [kind |-> "error", errAt |-> offset, len |-> length, files |-> <<>>]

(***************************************************************************)
(* get_data, one build.  ey.func(f, ...) is taken to run the task f; the   *)
(* build starts with no intermediate and no cache unit on disk.            *)
(***************************************************************************)
Init ==
    /\ IdleUnpack
    /\ IdleSanitise
    /\ IdleKeyed
    /\ pc = "download"
    /\ bz2File = NoFile
    /\ artifact = "absent"
    /\ tarFile = [exists |-> FALSE, files |-> <<>>]
    /\ ret = "unset"
    /\ pending = "none"
    /\ tar_file_name = "unset"
    /\ gzfiles = <<>>
    /\ parsed = <<>>
    /\ merged_df = EmptyFrame
    /\ cacheFile = [written |-> FALSE, df |-> EmptyFrame]
    /\ outcome = "running"
    /\ errorMsgLen = 0
    /\ invoked7z = FALSE
    /\ removed = FALSE
    /\ stage = {}

Fail(err) ==
    /\ pc' = "failed"
    /\ outcome' = err

\* lines 213-214: the response body is streamed to out_path
Download ==
    /\ pc = "download"
    /\ \/ \E offset \in 0..MaxErrOffset, length \in {20, 200} :
            bz2File' = ErrorDocument(offset, length)
       \/ \E chosen \in SUBSET DOMAIN MemberNames :
            /\ Cardinality(chosen) <= MaxFiles
            /\ \E content \in [chosen -> MessageContents \cup {"text"}] :
                 /\ \A n \in chosen : content[n] \in ContentsOf(MemberNames[n])
                 /\ bz2File' = ArchiveOf(chosen, content)
    /\ pc' = "check"
    /\ UNCHANGED <<unpackVars, sanitiseVars, keyedVars, artifact, tarFile, ret, pending,
                   tar_file_name, gzfiles, parsed, merged_df, cacheFile, outcome,
                   errorMsgLen, invoked7z, removed, stage>>

\* lines 217-222
CheckFile ==
    /\ pc = "check"
    /\ IF ErrorCheck(bz2File)
       THEN /\ Fail("UpstreamError")
            /\ errorMsgLen' = Min(bz2File.len, HeadBytes + MoreBytes)
       ELSE /\ pc' = "7z"
            /\ UNCHANGED <<outcome, errorMsgLen>>
    /\ UNCHANGED <<unpackVars, sanitiseVars, keyedVars, bz2File, artifact, tarFile, ret, pending,
                   tar_file_name, gzfiles, parsed, merged_df, cacheFile, invoked7z,
                   removed, stage>>

\* line 164 and the except clause of lines 171-173: the utility exits zero
\* only on an archive; when it exits non-zero it may have left output, and
\* bz2_to_tar goes on to return None; when it cannot be started at all the
\* error is none that bz2_to_tar catches
Run7z ==
    /\ pc = "7z"
    /\ invoked7z' = TRUE
    /\ \/ /\ bz2File.kind = "archive"
          /\ artifact' \in {"file", "dir"}
          /\ pc' = "tar"
          /\ UNCHANGED <<ret, pending>>
       \/ /\ artifact' \in {"absent", "file", "dir"}
          /\ ret' = "None"
          /\ pc' = "finally"
          /\ UNCHANGED pending
       \/ /\ pending' = "FileNotFoundError"
          /\ pc' = "finally"
          /\ UNCHANGED <<artifact, ret>>
    /\ UNCHANGED <<unpackVars, sanitiseVars, keyedVars, bz2File, tarFile, tar_file_name,
                   gzfiles, parsed, merged_df, cacheFile, outcome, errorMsgLen,
                   removed, stage>>

\* lines 167-170: repackaging succeeds, or raises an error that no except
\* clause of bz2_to_tar handles
TarAdd ==
    /\ pc = "tar"
    /\ \/ /\ tarFile' = [exists |-> TRUE, files |-> bz2File.files]
          /\ ret' = "tar"
          /\ UNCHANGED pending
       \/ /\ pending' = "OSError"
          /\ UNCHANGED <<tarFile, ret>>
    /\ pc' = "finally"
    /\ UNCHANGED <<unpackVars, sanitiseVars, keyedVars, bz2File, artifact, tar_file_name, gzfiles,
                   parsed, merged_df, cacheFile, outcome, errorMsgLen, invoked7z,
                   removed, stage>>

\* the finally block is skipped
NoCleanup(a) == a

\* lines 176-186: what is left of the intermediate
Cleanup(a) == "absent"

\* lines 174-186, then the return or the re-raise
Finally ==
    /\ pc = "finally"
    /\ artifact' = Cleanup(artifact)
    /\ removed' = (artifact # "absent" /\ artifact' = "absent")
    /\ IF pending # "none"
       THEN /\ Fail(pending)
            /\ UNCHANGED tar_file_name
       ELSE /\ tar_file_name' = ret
            /\ pc' = "open"
            /\ UNCHANGED outcome
    /\ UNCHANGED <<unpackVars, sanitiseVars, keyedVars, bz2File, tarFile, ret, pending, gzfiles,
                   parsed, merged_df, cacheFile, errorMsgLen, invoked7z, stage>>

\* lines 235-240: tarfile.open(None) raises
OpenTar ==
    /\ pc = "open"
    /\ IF tar_file_name = "None"
       THEN /\ Fail("NothingToOpen")
            /\ UNCHANGED <<gzfiles, parsed>>
       ELSE /\ gzfiles' = SelectFiles(tarFile.files)
            /\ parsed' = [n \in DOMAIN gzfiles' |-> "pending"]
            /\ pc' = "decode"
            /\ UNCHANGED outcome
    /\ UNCHANGED <<unpackVars, sanitiseVars, keyedVars, bz2File, artifact, tarFile, ret, pending,
                   tar_file_name, merged_df, cacheFile, errorMsgLen, invoked7z,
                   removed, stage>>

\* lines 245-246: the decodes run in any order
DecodeFile ==
    /\ pc = "decode"
    /\ \E n \in DOMAIN gzfiles :
         /\ parsed[n] = "pending"
         /\ parsed' = [parsed EXCEPT ![n] =
                IF _parse_gtfs(gzfiles[n].content).err = "none" THEN "ok" ELSE "failed"]
    /\ UNCHANGED <<unpackVars, sanitiseVars, keyedVars, pc, bz2File, artifact, tarFile, ret,
                   pending, tar_file_name, gzfiles, merged_df, cacheFile, outcome,
                   errorMsgLen, invoked7z, removed, stage>>

\* lines 245-248: Parallel returns when every decode is done and raises as
\* soon as one has failed; pd.concat raises on an empty list
Gather ==
    /\ pc = "decode"
    /\ \/ DecodeFailed(parsed)
       \/ \A n \in DOMAIN parsed : parsed[n] # "pending"
    /\ LET oks == SelectSeq([n \in DOMAIN gzfiles |-> n], LAMBDA n : parsed[n] = "ok")
       IN  IF DecodeFailed(parsed)
           THEN /\ Fail("DecodeError")
                /\ UNCHANGED <<merged_df, stage>>
           ELSE IF oks = <<>>
           THEN /\ Fail("NoObjectsToConcatenate")
                /\ UNCHANGED <<merged_df, stage>>
           ELSE /\ merged_df' =
                     ConcatIndex([k \in DOMAIN oks |-> _parse_gtfs(gzfiles[oks[k]].content).df])
                /\ stage' = {"decode", "concat"}
                /\ pc' = "cast"
                /\ UNCHANGED outcome
    /\ UNCHANGED <<unpackVars, sanitiseVars, keyedVars, bz2File, artifact, tarFile, ret, pending,
                   tar_file_name, gzfiles, parsed, cacheFile, errorMsgLen, invoked7z,
                   removed>>

\* lines 250-263: a cast that fails raises; otherwise the all-NaN rows are
\* gone and the dots of the labels are underscores
Cast ==
    /\ pc = "cast"
    /\ IF CastFails(DropNaRows(merged_df))
       THEN /\ Fail("CastError")
            /\ UNCHANGED <<merged_df, stage>>
       ELSE /\ merged_df' = RenameDots(DropNaRows(merged_df))
            /\ stage' = stage \cup {"cast"}
            /\ pc' = "sanitise"
            /\ UNCHANGED outcome
    /\ UNCHANGED <<unpackVars, sanitiseVars, keyedVars, bz2File, artifact, tarFile, ret, pending,
                   tar_file_name, gzfiles, parsed, cacheFile, errorMsgLen, invoked7z,
                   removed>>

\* line 266
Sanitise ==
    /\ pc = "sanitise"
    /\ merged_df' = sanitise_array(merged_df)
    /\ stage' = stage \cup {"normalize", "deduplicate"}
    /\ pc' = "write"
    /\ UNCHANGED <<unpackVars, sanitiseVars, keyedVars, bz2File, artifact, tarFile, ret, pending,
                   tar_file_name, gzfiles, parsed, cacheFile, outcome, errorMsgLen,
                   invoked7z, removed>>

\* lines 268-273
Persisted(df) == ResetIndex(WithPlaceholder(df))

WriteCacheUnit ==
    /\ pc = "write"
    /\ cacheFile' = [written |-> TRUE, df |-> Persisted(merged_df)]
    /\ pc' = "done"
    /\ outcome' = "done"
    /\ UNCHANGED <<unpackVars, sanitiseVars, keyedVars, bz2File, artifact, tarFile, ret, pending,
                   tar_file_name, gzfiles, parsed, merged_df, errorMsgLen, invoked7z,
                   removed, stage>>

\* lines 240-273 in one piece: what merge_files makes of the members of a tar
MergeOutcome(files) ==
    LET sel == SelectFiles(files)
        res == [k \in DOMAIN sel |-> _parse_gtfs(sel[k].content)]
    IN  IF \E k \in DOMAIN res : res[k].err # "none"
        THEN [err |-> "DecodeError", df |-> EmptyFrame]
        ELSE IF sel = <<>>
        THEN [err |-> "NoObjectsToConcatenate", df |-> EmptyFrame]
        ELSE LET merged == DropNaRows(ConcatIndex([k \in DOMAIN res |-> res[k].df]))
             IN  IF CastFails(merged)
                 THEN [err |-> "CastError", df |-> EmptyFrame]
                 ELSE [err |-> "none",
                       df  |-> Persisted(sanitise_array(RenameDots(merged)))]

Next ==
    \/ Download
    \/ CheckFile
    \/ Run7z
    \/ TarAdd
    \/ Finally
    \/ OpenTar
    \/ DecodeFile
    \/ Gather
    \/ Cast
    \/ Sanitise
    \/ WriteCacheUnit

Spec == Init /\ [][Next]_vars

(***************************************************************************)
(* Several calls of get_data on one cache directory, as get_range makes    *)
(* them hour after hour and as callers running side by side make them at   *)
(* once.  Each call is followed through the files it names, writes, reads  *)
(* and removes; a file is known by its path and by the request whose       *)
(* response its content was taken from.  A path is written as its folder,  *)
(* its name without the extension and its extension.                       *)
(***************************************************************************)
Builds == {"first", "second"}

Companies == {"sl", "SL"}
Feeds == {"TripUpdates"}
Dates == {"2024-01-01", "2024-01-02"}
Hours == {0, 1}

CacheKeys == [company : Companies, feed : Feeds, date : Dates, hour : Hours]

\* config.CACHE_DIR, below the caller's directory
CACHE_DIR == "Cache"

\* str.lower(), over the words of the model
Lower(w) ==
    CASE w = "SL"          -> "sl"
      [] w = "TripUpdates" -> "tripupdates"
      [] w = "Cache"       -> "cache"
      [] OTHER             -> w

\* date.replace('_', '-'), over the dates of the model
DashDate(d) ==
    CASE d = "2024_01_01" -> "2024-01-01"
      [] d = "2024_01_02" -> "2024-01-02"
      [] OTHER            -> d

\* date.replace('-', '_'), over the dates of the model
UnderscoreDate(d) ==
    CASE d = "2024-01-01" -> "2024_01_01"
      [] d = "2024-01-02" -> "2024_01_02"
      [] OTHER            -> d

\* lines 67-68
_get_data_path(k) ==
    [folder |-> CACHE_DIR,
     base   |-> k.company \o "_" \o k.feed \o "_" \o UnderscoreDate(k.date)
                    \o "_" \o ToString(k.hour),
     ext    |-> ".feather"]

\* lines 209-212: what is asked of the provider; version 1 of the API is not
\* asked for an hour
koda_url(k) ==
    IF API_VERSION = 1
    THEN <<"v0.1", k.company, k.feed, DashDate(k.date)>>
    ELSE <<"v2", k.company, k.feed, DashDate(k.date), ToString(k.hour)>>

\* line 213: the joined path, folder included, in lower case
out_path(k) ==
    [folder |-> Lower(CACHE_DIR),
     base   |-> Lower(k.company) \o "-" \o Lower(k.feed) \o "-" \o Lower(DashDate(k.date)),
     ext    |-> ".bz2"]

\* lines 154-156
decompressed_file(bz2_file) == [bz2_file EXCEPT !.ext = ""]

\* line 157
tar_file(bz2_file) == [bz2_file EXCEPT !.ext = ".tar"]

Exists(p) == \E f \in disk : f.path = p

FileAt(p) == CHOOSE f \in disk : f.path = p

Write(p, kind, from) ==
    {f \in disk : f.path # p} \cup {[path |-> p, kind |-> kind, from |-> from]}

Remove(p) == {f \in disk : f.path # p}

InitBuilds ==
    /\ IdleUnpack
    /\ IdleSanitise
    /\ IdleBuild
    /\ cacheKey \in [Builds -> CacheKeys]
    /\ API_VERSION \in {1, 2}
    /\ disk = {}
    /\ step = [b \in Builds |-> "download"]
    /\ tarName = [b \in Builds |-> "unset"]

\* lines 213-214 and 144-150: the response, an archive or an error document,
\* is written over whatever is at out_path
KeyedDownload(b) ==
    /\ step[b] = "download"
    /\ \E kind \in {"archive", "error"} :
          disk' = Write(out_path(cacheKey[b]), kind, koda_url(cacheKey[b]))
    /\ step' = [step EXCEPT ![b] = "check"]
    /\ UNCHANGED <<unpackVars, sanitiseVars, buildVars, cacheKey, API_VERSION, tarName>>

\* lines 217-222, on the file that is at out_path now
KeyedCheck(b) ==
    /\ step[b] = "check"
    /\ step' = [step EXCEPT ![b] =
          IF FileAt(out_path(cacheKey[b])).kind = "error" THEN "failed" ELSE "7z"]
    /\ UNCHANGED <<unpackVars, sanitiseVars, buildVars, cacheKey, API_VERSION, disk, tarName>>

\* lines 164 and 171-173: the utility unpacks the file that is at out_path
\* now into decompressed_file, or exits non-zero and bz2_to_tar is about to
\* return None
Keyed7z(b) ==
    /\ step[b] = "7z"
    /\ LET bz2_file == out_path(cacheKey[b])
       IN  \/ /\ FileAt(bz2_file).kind = "archive"
              /\ disk' = Write(decompressed_file(bz2_file), "extracted", FileAt(bz2_file).from)
              /\ step' = [step EXCEPT ![b] = "tar"]
              /\ UNCHANGED tarName
           \/ /\ tarName' = [tarName EXCEPT ![b] = "None"]
              /\ step' = [step EXCEPT ![b] = "finally"]
              /\ UNCHANGED disk
    /\ UNCHANGED <<unpackVars, sanitiseVars, buildVars, cacheKey, API_VERSION>>

\* lines 167-170: what is at decompressed_file now is repackaged; tar.add
\* raises when nothing is there any more
KeyedTar(b) ==
    /\ step[b] = "tar"
    /\ LET bz2_file == out_path(cacheKey[b])
       IN  IF Exists(decompressed_file(bz2_file))
           THEN /\ disk' = Write(tar_file(bz2_file), "tar",
                                 FileAt(decompressed_file(bz2_file)).from)
                /\ tarName' = [tarName EXCEPT ![b] = "tar"]
                /\ step' = [step EXCEPT ![b] = "finally"]
           ELSE /\ step' = [step EXCEPT ![b] = "raising"]
                /\ UNCHANGED <<disk, tarName>>
    /\ UNCHANGED <<unpackVars, sanitiseVars, buildVars, cacheKey, API_VERSION>>

\* lines 174-186: whatever is at decompressed_file is removed, then
\* bz2_to_tar returns or lets the exception through
KeyedFinally(b) ==
    /\ step[b] \in {"finally", "raising"}
    /\ disk' = Remove(decompressed_file(out_path(cacheKey[b])))
    /\ step' = [step EXCEPT ![b] = IF step[b] = "raising" THEN "failed" ELSE "merge"]
    /\ UNCHANGED <<unpackVars, sanitiseVars, buildVars, cacheKey, API_VERSION, tarName>>

\* lines 234-275: the tar that is at tar_file_name now is decoded and the
\* table made of it is written to output_file; tarfile.open(None) raises
KeyedMerge(b) ==
    /\ step[b] = "merge"
    /\ IF tarName[b] = "None"
       THEN /\ step' = [step EXCEPT ![b] = "failed"]
            /\ UNCHANGED disk
       ELSE /\ disk' = Write(_get_data_path(cacheKey[b]), "unit",
                             FileAt(tar_file(out_path(cacheKey[b]))).from)
            /\ step' = [step EXCEPT ![b] = "done"]
    /\ UNCHANGED <<unpackVars, sanitiseVars, buildVars, cacheKey, API_VERSION, tarName>>

NextBuilds ==
    \E b \in Builds :
        \/ KeyedDownload(b)
        \/ KeyedCheck(b)
        \/ Keyed7z(b)
        \/ KeyedTar(b)
        \/ KeyedFinally(b)
        \/ KeyedMerge(b)

SpecBuilds == InitBuilds /\ [][NextBuilds]_vars

(***************************************************************************)
(* Properties of unpack_jsons.                                             *)
(***************************************************************************)
HoldsList(df, k) == \E i \in DOMAIN df.rows : Column(df, k)[i].k = "list"

ListColumns(df) == {k \in Range(df.cols) : HoldsList(df, k)}

\* the table has the single list column f, and every row holds a list in it
OneListColumn(df) ==
    /\ df.cols = <<"id", "f">>
    /\ \A i \in DOMAIN df.rows : df.rows[i][2].k = "list"

\* the rows of the result that carry the parent field id of input row i
RowsOf(i) == {m \in DOMAIN ures.rows : ures.rows[m][Pos(ures.cols, "id")] = Val(i)}

\* the field x of the records of input row i
ChildX(i) == {ElemGet(udf.rows[i][2].l[j], "x") : j \in DOMAIN udf.rows[i][2].l}

\* C7: with one column of lists of records, unpack_jsons completes and every
\* row, the first included, yields one output row per element of its list
\* (none for an empty list), carrying the row's id and the element's x as f_x.
C7_EveryRowExploded ==
    (ust # "called" /\ OneListColumn(udf)) =>
        /\ ust = "returned"
        /\ \A i \in DOMAIN udf.rows :
              /\ Cardinality(RowsOf(i)) = Len(udf.rows[i][2].l)
              /\ Len(udf.rows[i][2].l) > 0 =>
                    {ures.rows[m][Pos(ures.cols, "f_x")] : m \in RowsOf(i)} = ChildX(i)

\* every list column of the input is detected: each row holds a non-empty list
AllDetected(df) ==
    \A k \in ListColumns(df) :
        \A i \in DOMAIN df.rows :
            Column(df, k)[i].k = "list" /\ Column(df, k)[i].l # <<>>

NestedListChildren(df) ==
    UNION {
        {k \o "_" \o e[n].name : n \in {m \in DOMAIN e : e[m].cell.k = "list"}}
        : <<k, e>> \in
            UNION {{k2} \X UNION {Range(Column(df, k2)[i].l) : i \in DOMAIN df.rows}
                   : k2 \in Range(keys_to_sanitise(df))}}

C9_WarnedForEveryNestedColumn ==
    ust = "returned" => \A k \in ListColumns(ures) : k \in uwarn

\* the input row a scalar of the tables above was taken from: the value of
\* id is i, that of the fields x and u of row i is 10 * i + j
OwnerOf(label, cell) == IF label = "id" THEN cell.v ELSE cell.v \div 10

\* the columns of the returned table that hold the fields of the exploded records
ChildColumns == {j \in DOMAIN ures.cols : ures.cols[j] # "id"}

\* C12: when the columns f and g are exploded in the same pass, every row of
\* the returned table carries the parent field id of an input row, the child
\* fields f_x and g_u beside it come from that same input row, and every
\* replica of a parent row has a child row beside it.
C12_ChildrenBesideOwnParent ==
    (ust = "returned" /\ keys_to_sanitise(udf) = <<"f", "g">>) =>
        \A m \in DOMAIN ures.rows :
            LET id == ures.rows[m][Pos(ures.cols, "id")]
            IN  /\ id.k = "val"
                /\ \A j \in ChildColumns :
                      (ures.cols[j] \in {"f_x", "g_u"} /\ ures.rows[m][j].k = "val") =>
                          OwnerOf(ures.cols[j], ures.rows[m][j]) = OwnerOf("id", id)
                /\ \E j \in ChildColumns : ures.rows[m][j] # NaN

(***************************************************************************)
(* Properties of normalize_keys and sanitise_array.                        *)
(***************************************************************************)
NonVolatile(df) == Range(df.cols) \ Range(VolatileKeys)

DistinctLabels(df) ==
    \A j1, j2 \in DOMAIN df.cols : df.cols[j1] = df.cols[j2] => j1 = j2

\* the rows sanitise_array compares: the normalized table without its all-NaN rows
Compared == DropNaRows(snorm).rows

\* row i of the compared rows is the last of its group under the labels keys
IsLastOfGroup(i, keys) ==
    \A i2 \in DOMAIN Compared :
        i2 > i => KeyOf(snorm, Compared[i2], keys) # KeyOf(snorm, Compared[i], keys)

\* a compared row, cut down to the columns of the output
Projected(row) == [j \in DOMAIN sres.cols |-> row[Pos(snorm.cols, sres.cols[j])]]

\* C1: whatever volatile columns are present, no two rows of the output agree
\* on all non-volatile columns, and of each group of rows that agree on the
\* non-volatile columns the output holds the last one.
C1_UniqueOnIdentityKey ==
    (sst = "returned" /\ DistinctLabels(snorm)) =>
        /\ \A i1, i2 \in DOMAIN sres.rows :
              KeyOf(sres, sres.rows[i1], NonVolatile(sres))
                  = KeyOf(sres, sres.rows[i2], NonVolatile(sres)) => i1 = i2
        /\ \A i \in DOMAIN Compared :
              IsLastOfGroup(i, NonVolatile(sres)) => Projected(Compared[i]) \in Range(sres.rows)

\* the trip-update and vehicle-position paths are the two naming conventions
\* that are defined to share canonical names
IsAliasPath(p) ==
    p \in {"tripUpdate_trip_tripId", "tripUpdate_trip_startDate",
           "tripUpdate_trip_directionId", "tripUpdate_trip_routeId",
           "tripUpdate_trip_scheduleRelationship", "tripUpdate_trip_startTime",
           "tripUpdate_timestamp", "tripUpdate_vehicle_id",
           "vehicle_trip_tripId", "vehicle_trip_scheduleRelationship",
           "vehicle_timestamp", "vehicle_vehicle_id", "vehicle_trip_startTime",
           "vehicle_trip_startDate", "vehicle_trip_routeId", "vehicle_trip_directionId"}

\* C10: after normalize_keys no two columns carry the same canonical name,
\* unless sanitise_array reported the collision as a failure or the two
\* source paths are the trip-update / vehicle-position aliases of each other.
C10_CollisionsCaught ==
    sst \in {"returned", "raised"} =>
        \/ sst = "raised"
        \/ \A j1, j2 \in DOMAIN snorm.cols :
              (j1 # j2 /\ snorm.cols[j1] = snorm.cols[j2]) =>
                  (IsAliasPath(sdf.cols[j1]) /\ IsAliasPath(sdf.cols[j2]))

(***************************************************************************)
(* Properties of get_data.                                                 *)
(***************************************************************************)
\* C2: when b'error' lies within the first ten bytes of the downloaded file,
\* the build fails with the upstream error, which carries the bytes of the
\* document up to the 80th, the decompression utility is never run and no
\* cache-unit file is written.
C2_ErrorDocumentStopsBuild ==
    (/\ bz2File.kind = "error"
     /\ bz2File.errAt + ErrorWordLen <= HeadBytes
     /\ pc \notin {"download", "check"}) =>
        /\ pc = "failed"
        /\ outcome = "UpstreamError"
        /\ errorMsgLen = Min(bz2File.len, HeadBytes + MoreBytes)
        /\ ~invoked7z
        /\ ~cacheFile.written

\* C2: a build that failed on a document beginning {"error":
C2_Witness ==
    /\ bz2File.kind = "error"
    /\ bz2File.errAt = 2
    /\ pc = "failed"
    /\ outcome = "UpstreamError"

AllTransforms == {"decode", "concat", "cast", "normalize", "deduplicate"}

\* C3: the cache-unit file is written last, after every chosen member has
\* been decoded and concatenation, casting, normalization and deduplication
\* are done; a decode or a cast that fails ends the build with that failure
\* and without a cache-unit file.
C3_WriteIsLast ==
    /\ cacheFile.written =>
          /\ pc = "done"
          /\ \A n \in DOMAIN parsed : parsed[n] = "ok"
          /\ stage = AllTransforms
    /\ (\E n \in DOMAIN parsed : parsed[n] = "failed") =>
          /\ ~cacheFile.written
          /\ pc \in {"decode", "failed"}
          /\ pc = "failed" => outcome = "DecodeError"
    /\ (pc = "failed" /\ "concat" \in stage) => (outcome = "CastError" /\ ~cacheFile.written)
    /\ pc = "failed" => ~cacheFile.written

\* C3: a build that ended on a failed decode after another member decoded
C3_Witness ==
    /\ pc = "failed"
    /\ outcome = "DecodeError"
    /\ \E n \in DOMAIN parsed : parsed[n] = "ok"
    /\ \E n \in DOMAIN parsed : parsed[n] = "failed"
    /\ ~cacheFile.written

\* C4: when the decompression utility exits non-zero the build fails there
\* with an extraction error: bz2_to_tar hands no value back to get_data and
\* the build does not go on to open the archive.
C4_ExtractionFailureSurfaced ==
    ret = "None" =>
        /\ tar_file_name # "None"
        /\ pc \in {"finally", "failed"}
        /\ pc = "failed" => outcome = "ExtractionError"

\* C5: once bz2_to_tar has been left, by return or by exception, and so
\* whenever the build has ended, the decompressed intermediate is gone.
C5_IntermediateRemoved ==
    pc \in {"open", "decode", "cast", "sanitise", "write", "done", "failed"} =>
        artifact = "absent"

\* C5: a build that ended on a failed repackaging, the intermediate removed
C5_Witness ==
    /\ pc = "failed"
    /\ outcome = "OSError"
    /\ removed
    /\ artifact = "absent"

\* the members of a tar that are not marked as duplicate copies
WithoutMarked(files) == SelectSeq(files, LAMBDA e : ~HasDuplicate(e.name))

\* C6: the members decoded are exactly the .pb members not marked Duplicate,
\* and the build ends as it does on the same archive without its marked
\* copies: with the same cache unit, or with the same failure.
C6_DuplicatesExcluded ==
    /\ pc \in {"decode", "cast", "sanitise", "write", "done"} =>
          Range(gzfiles) =
              {e \in Range(tarFile.files) : EndsWithPb(e.name) /\ ~HasDuplicate(e.name)}
    /\ pc = "done" =>
          /\ \A n \in DOMAIN parsed : parsed[n] = "ok"
          /\ MergeOutcome(WithoutMarked(tarFile.files)).err = "none"
          /\ cacheFile.df = MergeOutcome(WithoutMarked(tarFile.files)).df
    /\ (pc = "failed" /\ outcome \in {"DecodeError", "NoObjectsToConcatenate", "CastError"}) =>
          MergeOutcome(WithoutMarked(tarFile.files)).err = outcome

\* C6: a cache unit of two rows built from an archive that also holds a
\* Duplicate-marked copy with other content
C6_Witness ==
    /\ pc = "done"
    /\ \E e \in Range(tarFile.files) :
          EndsWithPb(e.name) /\ HasDuplicate(e.name) /\ e.content = "tu_b"
    /\ Len(cacheFile.df.rows) = 2

\* C11: the placeholder column _ is in the persisted table exactly when the
\* table sanitise_array left has no column; a table with a column is persisted
\* with its own columns (behind the index column of line 272) and without the
\* placeholder.  The test of line 268 is DataFrame.empty, which is also true
\* of a table without rows; the two agree because dropna(axis=1, how='all')
\* leaves no column to a table without rows.
C11_PlaceholderIffNoColumns ==
    /\ pc \in {"write", "done"} => (merged_df.rows = <<>> => merged_df.cols = <<>>)
    /\ cacheFile.written =>
          /\ ("_" \in Range(cacheFile.df.cols)) <=> (merged_df.cols = <<>>)
          /\ merged_df.cols # <<>> => cacheFile.df = ResetIndex(merged_df)
          /\ merged_df.cols = <<>> =>
                /\ cacheFile.df.cols = <<"index", "_">>
                /\ Len(cacheFile.df.rows) = Len(merged_df.rows)

\* C11: a cache unit written from a feed without entities: no column was
\* left and the placeholder was inserted
C11_Witness ==
    /\ cacheFile.written
    /\ merged_df.cols = <<>>
    /\ cacheFile.df.cols = <<"index", "_">>
    /\ \E n \in DOMAIN gzfiles : gzfiles[n].content = "empty"

(***************************************************************************)
(* Properties of several calls of get_data.                                *)
(***************************************************************************)
\* C13: two calls whose keys differ, be it in the hour alone, name different
\* paths for the downloaded archive and for the decompressed intermediate,
\* and the cache unit a call has written was made of the response to the
\* request of its own key.
C13_KeysNeverShareFiles ==
    /\ \A a, b \in Builds :
          cacheKey[a] # cacheKey[b] =>
              /\ out_path(cacheKey[a]) # out_path(cacheKey[b])
              /\ decompressed_file(out_path(cacheKey[a]))
                    # decompressed_file(out_path(cacheKey[b]))
    /\ \A b \in Builds :
          step[b] = "done" =>
              FileAt(_get_data_path(cacheKey[b])).from = koda_url(cacheKey[b])

====
